---- MODULE Spec2Model ----
(***************************************************************************)
(* Model of create_schema.py: the one-shot MongoDB schema provisioner of   *)
(* glow-haven.  A run lists the collections of the database, materializes  *)
(* every missing catalog collection by inserting and deleting a dummy      *)
(* document, and then requests the seven secondary indexes.  The database  *)
(* outlives a run, so the model lets the script be invoked again on the    *)
(* database the previous run left behind.                                  *)
(***************************************************************************)
EXTENDS Integers, Sequences, FiniteSets, TLC

(* ------------------------------ bounds --------------------------------- *)

\* number of invocations of the script on the same database
MaxRuns == 2

\* number of database operations that fail for reasons outside the script
\* (server unreachable, write rejected) over all invocations
MaxFaults == 1

\* number of documents a collection holds before the first invocation
MaxDocs == 1

\* number of collections that exist before the first invocation
MaxPre == 1

(* --------------------------- the catalog ------------------------------- *)

collectionsShort ==
    << "users", "addresses", "products", "orders", "services", "bookings" >>

\* the keys of the `collections` dict, in insertion order
collections ==
    << "users", "addresses", "products", "orders", "services", "bookings",
       "availability" >>

\* the test of the loop body: the name is not among the listed ones
MissingAlways(name, ex) == TRUE

Missing(name, ex) == name \notin ex

ASCENDING == 1

\* pymongo turns create_index("f") into the key list [("f", ASCENDING)]
SingleKey(field) == << <<field, ASCENDING>> >>

IndexRequestsBadUnique ==
    << [coll |-> "users",     key |-> SingleKey("phone"),    unique |-> FALSE],
       [coll |-> "addresses", key |-> SingleKey("user_id"),  unique |-> FALSE],
       [coll |-> "orders",    key |-> SingleKey("user_id"),  unique |-> FALSE],
       [coll |-> "bookings",  key |-> SingleKey("user_id"),  unique |-> FALSE],
       [coll |-> "bookings",  key |-> << <<"date", 1>>, <<"time", 1>> >>,
                                                             unique |-> FALSE],
       [coll |-> "products",  key |-> SingleKey("category"), unique |-> FALSE],
       [coll |-> "services",  key |-> SingleKey("name"),     unique |-> FALSE] >>

IndexRequestsExtra ==
    << [coll |-> "users",     key |-> SingleKey("phone"),    unique |-> TRUE],
       [coll |-> "addresses", key |-> SingleKey("user_id"),  unique |-> FALSE],
       [coll |-> "orders",    key |-> SingleKey("user_id"),  unique |-> FALSE],
       [coll |-> "bookings",  key |-> SingleKey("user_id"),  unique |-> FALSE],
       [coll |-> "bookings",  key |-> << <<"date", 1>>, <<"time", 1>> >>,
                                                             unique |-> FALSE],
       [coll |-> "products",  key |-> SingleKey("category"), unique |-> FALSE],
       [coll |-> "services",  key |-> SingleKey("name"),     unique |-> FALSE],
       [coll |-> "availability", key |-> SingleKey("date"),  unique |-> FALSE] >>

\* the create_index calls, in program order
IndexRequests ==
    << [coll |-> "users",     key |-> SingleKey("phone"),    unique |-> TRUE],
       [coll |-> "addresses", key |-> SingleKey("user_id"),  unique |-> FALSE],
       [coll |-> "orders",    key |-> SingleKey("user_id"),  unique |-> FALSE],
       [coll |-> "bookings",  key |-> SingleKey("user_id"),  unique |-> FALSE],
       [coll |-> "bookings",  key |-> << <<"date", 1>>, <<"time", 1>> >>,
                                                             unique |-> FALSE],
       [coll |-> "products",  key |-> SingleKey("category"), unique |-> FALSE],
       [coll |-> "services",  key |-> SingleKey("name"),     unique |-> FALSE] >>

(* --------------------------- the database ------------------------------ *)

\* a collection of the database the script never names
OtherName == "sessions"

\* the collection names the database may hold
Names ==
    { "users", "addresses", "products", "orders", "services", "bookings",
      "availability", OtherName }

\* the index every materialized collection has on its identifier
IdIndex == [key |-> SingleKey("_id"), unique |-> FALSE]

\* a collection the database does not hold
Absent == [exists |-> FALSE, docs |-> {}, idx |-> {}]

\* identifiers of the documents present before the first invocation
UserDoc(n) == <<"doc", n>>

\* ObjectId(): the identifier generated for the dummy document of one
\* invocation; distinct from every identifier generated before
ObjectId(r) == <<"probe", r>>

NoId == <<"none", 0>>

IsProbe(id) == id[1] = "probe"

ListCollectionNamesNone(d) == {}

\* db.list_collection_names()
ListCollectionNames(d) == { n \in Names : d[n].exists }

\* db[name].insert_one(doc) with identifier id: the first write materializes
\* the collection together with its identifier index
InsertOne(d, name, id) ==
    [d EXCEPT ![name] =
        [exists |-> TRUE,
         docs   |-> d[name].docs \cup {id},
         idx    |-> IF d[name].exists THEN d[name].idx ELSE {IdIndex}]]

DeleteOneKeep(d, name, id) == d

\* db[name].delete_one({"_id": id}): the collection stays, however empty
DeleteOne(d, name, id) ==
    [d EXCEPT ![name].docs = d[name].docs \ {id}]

IndexConflictNever(d, r) == FALSE

\* the server rejects a request whose key list an existing index has with
\* other options
IndexConflict(d, r) ==
    \E x \in d[r.coll].idx : x.key = r.key /\ x.unique # r.unique

\* db[coll].create_index(key, unique=...) when the server accepts it: a no-op
\* if the index is there, and it materializes a missing collection
CreateIndex(d, r) ==
    [d EXCEPT ![r.coll] =
        [exists |-> TRUE,
         docs   |-> d[r.coll].docs,
         idx    |-> (IF d[r.coll].exists THEN d[r.coll].idx ELSE {IdIndex})
                        \cup {[key |-> r.key, unique |-> r.unique]}]]

(* ------------------- one invocation that nothing stops ----------------- *)

RECURSIVE CreateMissing(_, _, _, _)
\* the collection loop from collections[k] on, given the names listed at the
\* start and the identifier id generated for the dummy documents
CreateMissing(d, ex, id, k) ==
    IF k > Len(collections) THEN d
    ELSE CreateMissing(
             IF ~Missing(collections[k], ex) THEN d
             ELSE DeleteOne(InsertOne(d, collections[k], id),
                            collections[k], id),
             ex, id, k + 1)

RECURSIVE CreateIndexes(_, _)
\* the create_index calls from IndexRequests[k] on
CreateIndexes(d, k) ==
    IF k > Len(IndexRequests) THEN d
    ELSE CreateIndexes(CreateIndex(d, IndexRequests[k]), k + 1)

\* the database a run leaves when every call of it succeeds
FullRun(d) ==
    CreateIndexes(CreateMissing(d, ListCollectionNames(d), ObjectId(0), 1), 1)

(* ------------------------- program variables --------------------------- *)

VARIABLES
    db,          \* the database: name -> [exists, docs, idx]
    pc,          \* "list", "loop", "delete", "index", "done" or "failed"
    i,           \* position of the collection loop in `collections`
    j,           \* position in the create_index calls
    existing,    \* the names list_collection_names() returned
    temp_id,     \* identifier of the dummy document in flight
    log,         \* the lines printed by this invocation
    run,         \* number of the current invocation
    faults,      \* operations that failed for outside reasons so far
    failedOp,    \* the call whose exception ended this invocation
    dbStart,     \* the database when the current invocation began
    prevOutcome, \* how the previous invocation ended ("none" for the first)
    prevStart    \* the database when the previous invocation began

vars == << db, pc, i, j, existing, temp_id, log, run, faults, failedOp,
           dbStart, prevOutcome, prevStart >>

hist == << dbStart, prevOutcome, prevStart >>

(* --------------------------- initial states ---------------------------- *)

ReqsOn(name) ==
    { k \in 1..Len(IndexRequests) : IndexRequests[k].coll = name }

\* the indexes a collection may carry before the first invocation: per
\* catalog key list none, the catalog's index, or one with the other flag
PreIdx(name) ==
    { {IdIndex} \cup
      { [key |-> IndexRequests[k].key,
         unique |-> IF f[k] = "same" THEN IndexRequests[k].unique
                                     ELSE ~IndexRequests[k].unique]
        : k \in { q \in ReqsOn(name) : f[q] # "none" } }
      : f \in [ReqsOn(name) -> {"none", "same", "flipped"}] }

PreColl(name) ==
    { [exists |-> TRUE, docs |-> { UserDoc(n) : n \in 1..k }, idx |-> x]
      : k \in 0..MaxDocs, x \in PreIdx(name) }

InitDbs ==
    UNION { { [n \in Names |-> IF n \in P THEN g[n] ELSE Absent]
              : g \in { h \in [P -> UNION { PreColl(m) : m \in P }]
                        : \A n \in P : h[n] \in PreColl(n) } }
            : P \in { S \in SUBSET Names : Cardinality(S) <= MaxPre } }

EmptyDb == [n \in Names |-> Absent]

Init ==
    /\ db \in InitDbs
    /\ pc = "list"
    /\ i = 1
    /\ j = 1
    /\ existing = {}
    /\ temp_id = NoId
    /\ log = << >>
    /\ run = 1
    /\ faults = 0
    /\ failedOp = "none"
    /\ dbStart = db
    /\ prevOutcome = "none"
    /\ prevStart = db

(* ------------------------------ actions -------------------------------- *)

RaiseRollback(op) ==
    /\ faults < MaxFaults
    /\ faults' = faults + 1
    /\ pc' = "failed"
    /\ failedOp' = op
    /\ db' = dbStart
    /\ UNCHANGED << i, j, existing, temp_id, log, run, hist >>

\* an operation raises for a reason outside the script: nothing catches it,
\* the interpreter exits and the database keeps what was done so far
Raise(op) ==
    /\ faults < MaxFaults
    /\ faults' = faults + 1
    /\ pc' = "failed"
    /\ failedOp' = op
    /\ UNCHANGED << db, i, j, existing, temp_id, log, run, hist >>

\* control after the body of the collection loop for collections[i]: the next
\* collection, or the line printed ahead of the create_index calls
AfterCollection(line) ==
    /\ i' = i + 1
    /\ IF i < Len(collections)
         THEN /\ pc' = "loop"
              /\ log' = Append(log, line)
         ELSE /\ pc' = "index"
              /\ log' = log \o << line, <<"creating_indexes", "">> >>

\* existing = db.list_collection_names()
ListCollections ==
    /\ pc = "list"
    /\ \/ /\ existing' = ListCollectionNames(db)
          /\ pc' = "loop"
          /\ UNCHANGED << db, i, j, temp_id, log, run, faults, failedOp, hist >>
       \/ Raise("list_collection_names")

\* the else branch of the loop body
AlreadyExists ==
    /\ pc = "loop"
    /\ ~Missing(collections[i], existing)
    /\ AfterCollection(<<"exists", collections[i]>>)
    /\ UNCHANGED << db, j, existing, temp_id, run, faults, failedOp, hist >>

\* temp_id = db[name].insert_one(schema).inserted_id
InsertProbe ==
    /\ pc = "loop"
    /\ Missing(collections[i], existing)
    /\ \/ /\ db' = InsertOne(db, collections[i], ObjectId(run))
          /\ temp_id' = ObjectId(run)
          /\ pc' = "delete"
          /\ UNCHANGED << i, j, existing, log, run, faults, failedOp, hist >>
       \/ Raise("insert_one")

\* db[name].delete_one({"_id": temp_id}) and the "Created collection" line
DeleteProbe ==
    /\ pc = "delete"
    /\ \/ /\ db' = DeleteOne(db, collections[i], temp_id)
          /\ AfterCollection(<<"created", collections[i]>>)
          /\ UNCHANGED << j, existing, temp_id, run, faults, failedOp, hist >>
       \/ Raise("delete_one")

\* one create_index call; after the last one the two closing lines
CreateIndexStep ==
    /\ pc = "index"
    /\ \/ /\ ~IndexConflict(db, IndexRequests[j])
          /\ db' = CreateIndex(db, IndexRequests[j])
          /\ j' = j + 1
          /\ IF j < Len(IndexRequests)
               THEN UNCHANGED << pc, log >>
               ELSE /\ pc' = "done"
                    /\ log' = log \o << <<"indexes_created", "">>,
                                        <<"complete", "">> >>
          /\ UNCHANGED << i, existing, temp_id, run, faults, failedOp, hist >>
       \/ /\ IndexConflict(db, IndexRequests[j])
          /\ pc' = "failed"
          /\ failedOp' = "create_index"
          /\ UNCHANGED << db, i, j, existing, temp_id, log, run, faults, hist >>
       \/ Raise("create_index")

\* the operator invokes the script again on the same database
StartRun ==
    /\ pc \in {"done", "failed"}
    /\ run < MaxRuns
    /\ run' = run + 1
    /\ pc' = "list"
    /\ i' = 1
    /\ j' = 1
    /\ existing' = {}
    /\ temp_id' = NoId
    /\ log' = << >>
    /\ failedOp' = "none"
    /\ dbStart' = db
    /\ prevOutcome' = pc
    /\ prevStart' = dbStart
    /\ UNCHANGED << db, faults >>

Next ==
    \/ ListCollections
    \/ AlreadyExists
    \/ InsertProbe
    \/ DeleteProbe
    \/ CreateIndexStep
    \/ StartRun

Spec == Init /\ [][Next]_vars

(* ------------------------ what the claims speak of --------------------- *)

\* the catalog as the specification tabulates it
SpecNames ==
    { "users", "addresses", "products", "orders", "services", "bookings",
      "availability" }

SpecIndexes ==
    [n \in SpecNames |->
        CASE n = "users" ->
                 { [key |-> << <<"phone", 1>> >>, unique |-> TRUE] }
          [] n = "addresses" ->
                 { [key |-> << <<"user_id", 1>> >>, unique |-> FALSE] }
          [] n = "orders" ->
                 { [key |-> << <<"user_id", 1>> >>, unique |-> FALSE] }
          [] n = "bookings" ->
                 { [key |-> << <<"user_id", 1>> >>, unique |-> FALSE],
                   [key |-> << <<"date", 1>>, <<"time", 1>> >>,
                    unique |-> FALSE] }
          [] n = "products" ->
                 { [key |-> << <<"category", 1>> >>, unique |-> FALSE] }
          [] n = "services" ->
                 { [key |-> << <<"name", 1>> >>, unique |-> FALSE] }
          [] OTHER -> {}]

Lines == { log[k] : k \in 1..Len(log) }

CreatedNow == { n \in Names : <<"created", n>> \in Lines }

ReportedExisting == { n \in Names : <<"exists", n>> \in Lines }

\* the catalog collections the database held when this invocation began
PreExisting == { n \in SpecNames : dbStart[n].exists }

ProbeDocs(n) == { id \in db[n].docs : IsProbe(id) }

NonUniquePhone == [key |-> << <<"phone", 1>> >>, unique |-> FALSE]

UniquePhone == [key |-> << <<"phone", 1>> >>, unique |-> TRUE]

\* C1 (idempotence): in an invocation that follows a complete one on an
\* empty database nothing is ever written, so the database stays the one the
\* first invocation left, which is what a single run makes of the empty
\* database; no collection is reported created, and at the end every catalog
\* collection has been reported as already existing.
C1_Idempotent ==
    (prevOutcome = "done" /\ prevStart = EmptyDb) =>
        /\ db = dbStart
        /\ db = FullRun(EmptyDb)
        /\ pc # "delete"
        /\ CreatedNow = {}
        /\ pc = "done" => ReportedExisting = SpecNames

C1_Witness ==
    /\ prevOutcome = "done"
    /\ prevStart = EmptyDb
    /\ pc = "done"
    /\ run = 2

\* C2 (completeness): when an invocation has finished successfully, every
\* collection of the catalog exists, whatever the database held before.
C2_Complete ==
    pc = "done" => \A n \in SpecNames : db[n].exists

C2_Witness ==
    /\ pc = "done"
    /\ PreExisting # {}
    /\ PreExisting # SpecNames
    /\ \A n \in SpecNames : db[n].exists

\* C3 (index presence): when an invocation has finished successfully, every
\* catalog index is on its collection with its key list and uniqueness flag.
C3_IndexesPresent ==
    pc = "done" => \A n \in SpecNames : SpecIndexes[n] \subseteq db[n].idx

C3_Witness ==
    /\ pc = "done"
    /\ \E n \in SpecNames : ~(SpecIndexes[n] \subseteq dbStart[n].idx)
    /\ \E n \in SpecNames : dbStart[n].exists /\ dbStart[n].docs # {}
    /\ \A n \in SpecNames : SpecIndexes[n] \subseteq db[n].idx

\* C4 (no residual documents): a collection this invocation reports as
\* created did not exist before, exists now and holds no document.
C4_NoResidue ==
    \A n \in CreatedNow :
        /\ ~dbStart[n].exists
        /\ db[n].exists
        /\ db[n].docs = {}

C4_Witness ==
    /\ "users" \in CreatedNow
    /\ ~dbStart["users"].exists
    /\ db["users"].docs = {}
    /\ temp_id = ObjectId(run)

\* C5 (partial-state resumability): when some but not all catalog
\* collections exist at the start, no dummy document is ever inserted into or
\* deleted from a collection that existed, the documents of every collection
\* that existed stay as they were, and a run that finishes has created
\* exactly the missing catalog collections.
C5_Resumable ==
    (PreExisting # {} /\ PreExisting # SpecNames) =>
        /\ pc = "delete" => ~dbStart[collections[i]].exists
        /\ \A n \in Names : dbStart[n].exists => db[n].docs = dbStart[n].docs
        /\ CreatedNow \subseteq SpecNames \ PreExisting
        /\ pc = "done" =>
              /\ CreatedNow = SpecNames \ PreExisting
              /\ ListCollectionNames(db) \ ListCollectionNames(dbStart)
                    = SpecNames \ PreExisting

C5_Witness ==
    /\ pc = "done"
    /\ PreExisting # {}
    /\ PreExisting # SpecNames
    /\ \E n \in PreExisting : dbStart[n].docs # {}
    /\ CreatedNow = SpecNames \ PreExisting

\* C6 (conflict surfacing): when users starts with a non-unique index on
\* phone, the invocation never finishes successfully and never gets past the
\* request for the unique index, the request itself ends the invocation, and
\* the non-unique index stays while no unique one appears.
C6_Inv ==
    NonUniquePhone \in dbStart["users"].idx =>
        /\ pc # "done"
        /\ j = 1
        /\ NonUniquePhone \in db["users"].idx
        /\ UniquePhone \notin db["users"].idx

C6_ConflictSurfaces ==
    /\ [] C6_Inv
    /\ [][ (NonUniquePhone \in dbStart["users"].idx /\ pc = "index") =>
               (pc' = "failed" /\ failedOp' = "create_index" /\ db' = db) ]_vars

C6_Witness ==
    /\ NonUniquePhone \in dbStart["users"].idx
    /\ pc = "failed"
    /\ failedOp = "create_index"
    /\ faults = 0
    /\ j = 1

\* C7 (halt without rollback): no step ever removes a collection or an
\* index; a failed invocation has printed neither success line; and the only
\* thing that follows a failure is a new invocation, which finds the database
\* as the failed one left it.
C7_HaltNoRollback ==
    /\ [] (pc = "failed" =>
              /\ <<"indexes_created", "">> \notin Lines
              /\ <<"complete", "">> \notin Lines)
    /\ [][ /\ \A n \in Names :
                /\ db[n].exists => db'[n].exists
                /\ db[n].idx \subseteq db'[n].idx
           /\ pc = "failed" =>
                /\ db' = db
                /\ pc' = "list"
                /\ run' = run + 1 ]_vars

C7_Witness ==
    /\ pc = "failed"
    /\ failedOp = "create_index"
    /\ j = 3
    /\ CreatedNow # {}
    /\ db # dbStart

\* C8 (recovery by re-running): an invocation that succeeds after one that
\* failed leaves the database that one uninterrupted run makes of the
\* database the failed invocation started from.
C8_RecoveryByRerun ==
    (prevOutcome = "failed" /\ pc = "done") => db = FullRun(prevStart)

\* C9 (fixed-catalog scenario): a successful invocation on an empty database
\* ends with exactly the seven catalog collections, all empty, each carrying
\* its identifier index and its catalog indexes and nothing else.
C9_Scenario ==
    (dbStart = EmptyDb /\ pc = "done") =>
        /\ ListCollectionNames(db) = SpecNames
        /\ Cardinality(ListCollectionNames(db)) = 7
        /\ \A n \in SpecNames :
              /\ db[n].docs = {}
              /\ db[n].idx = {IdIndex} \cup SpecIndexes[n]
        /\ db[OtherName] = Absent

C9_Witness ==
    /\ dbStart = EmptyDb
    /\ pc = "done"
    /\ run = 1
    /\ Cardinality(UNION { { <<n, x>> : x \in db[n].idx \ {IdIndex} }
                            : n \in Names }) = 7

\* C10 (two-state creation): outside the creation step itself no catalog
\* collection holds a dummy document, and an invocation that failed at the
\* insert or at the delete of a dummy document left that collection absent.
C10_TwoState ==
    /\ pc # "delete" => \A n \in SpecNames : ProbeDocs(n) = {}
    /\ (pc = "failed" /\ failedOp \in {"insert_one", "delete_one"}) =>
           ~db[collections[i]].exists

====
